---- MODULE Spec2Model ----
(***************************************************************************)
(* A model of app.py: the artifact loader run at import time, the          *)
(* prediction pipeline with its fallback, and the HTTP handlers.           *)
(*                                                                         *)
(* Text is a sequence of one-character strings, so that lower(), strip()   *)
(* and endswith() are computed.  Numbers are integers counting hundredths  *)
(* (100 is 1.00); the fallback's intermediate values count thousandths.    *)
(***************************************************************************)
EXTENDS Integers, Sequences, FiniteSets, TLC

VARIABLES
    files,          \* models/ directory: artifact path -> "missing" | "corrupt" | "ok"
    templates,      \* templates/ directory: file name -> "absent" | "ok" | "bad"
    pc,             \* "import" before try_load_models() ran, then "serving" | "crashed"
    preprocessor,   \* global preprocessor: "None" or "artifact"
    models,         \* global models: target name -> loaded model
    models_loaded,  \* global models_loaded
    stdout,         \* what try_load_models() printed
    request,        \* the request handled last
    response,       \* the response returned for it
    call,           \* what predict_all_targets did for it
    posted          \* the body a client is about to POST to /predict

bundle == <<preprocessor, models, models_loaded>>
vars == <<files, templates, pc, preprocessor, models, models_loaded, stdout,
          request, response, call, posted>>

(***************************************************************************)
(* Bounds                                                                  *)
(***************************************************************************)
\* longest run of whitespace put before and after a condition string
MaxPad == 1

(***************************************************************************)
(* Configuration (app.py 20-26)                                            *)
(***************************************************************************)
PREPROCESSOR_PKL == "models/preprocessor.pkl"

MODEL_KEYS == <<"Resale_Value", "Recycle_Value", "Reuse_Score">>

MODEL_FILES ==
    [k \in {"Resale_Value", "Recycle_Value", "Reuse_Score"} |->
        CASE k = "Resale_Value"  -> "models/Resale_Value_GradientBoosting_Model.pkl"
          [] k = "Recycle_Value" -> "models/Recycle_Value_GradientBoosting_Model.pkl"
          [] k = "Reuse_Score"   -> "models/Reuse_Score_GradientBoosting_Model.pkl"]

ArtifactPaths == {PREPROCESSOR_PKL} \cup {MODEL_FILES[k] : k \in DOMAIN MODEL_FILES}

(***************************************************************************)
(* try_load_models (app.py 32-48)                                          *)
(***************************************************************************)
\* os.path.isfile(p) followed by joblib.load(p): the exception raised, or "none"
LoadResult(p) ==
    CASE files[p] = "missing" -> "FileNotFoundError"
      [] files[p] = "corrupt" -> "UnpicklingError"
      [] OTHER                -> "none"

\* the paths in the order the function visits them
LoadOrder == <<PREPROCESSOR_PKL>> \o [i \in 1..Len(MODEL_KEYS) |-> MODEL_FILES[MODEL_KEYS[i]]]

\* position of the first path that raises, Len(LoadOrder) + 1 when none does
FirstFailure ==
    LET bad == {i \in 1..Len(LoadOrder) : LoadResult(LoadOrder[i]) # "none"}
    IN  IF bad = {} THEN Len(LoadOrder) + 1
        ELSE CHOOSE i \in bad : \A j \in bad : i <= j

\* variant: an except clause naming FileNotFoundError only
CaughtNarrow(exc) == exc = "FileNotFoundError"

\* "except Exception" catches every exception class the body can raise
Caught(exc) == exc \in {"FileNotFoundError", "UnpicklingError"}

\* the model keys whose assignment models[k] = joblib.load(p) was executed
KeysLoaded(ff) == {MODEL_KEYS[i - 1] : i \in 2..(ff - 1)}

\* the value of the global preprocessor after the body ran up to position ff
PreprocessorAfter(ff) == IF ff > 1 THEN "artifact" ELSE preprocessor

\* variant: the flag set once the preprocessor and the first model are read
FlagAfterLenient(ff) == ff > 2

\* models_loaded after the body ran up to position ff
FlagAfter(ff) == ff > Len(LoadOrder)

try_load_models ==
    /\ pc = "import"
    /\ LET ff     == FirstFailure
           ok     == ff > Len(LoadOrder)
           exc    == IF ok THEN "none" ELSE LoadResult(LoadOrder[ff])
           loaded == KeysLoaded(ff)
       IN  /\ preprocessor' = PreprocessorAfter(ff)
           /\ models' = [k \in (DOMAIN models) \cup loaded |->
                            IF k \in loaded THEN "model" ELSE models[k]]
           /\ IF ok \/ Caught(exc)
              THEN /\ models_loaded' = FlagAfter(ff)
                   /\ stdout' = IF ok THEN <<"Models loaded.">>
                                ELSE <<"Models NOT loaded:", exc, LoadOrder[ff]>>
                   /\ pc' = "serving"
              ELSE /\ models_loaded' = models_loaded
                   /\ stdout' = stdout
                   /\ pc' = "crashed"
    /\ UNCHANGED <<files, templates, request, response, call, posted>>

(***************************************************************************)
(* Text: str.lower(), str.strip(), str.endswith(), str(), float()          *)
(***************************************************************************)
UpperCase == <<"A","B","C","D","E","F","G","H","I","J","K","L","M",
               "N","O","P","Q","R","S","T","U","V","W","X","Y","Z">>

LowerCase == <<"a","b","c","d","e","f","g","h","i","j","k","l","m",
               "n","o","p","q","r","s","t","u","v","w","x","y","z">>

Digits == <<"0","1","2","3","4","5","6","7","8","9">>

Whitespace == {" ", "\t", "\n"}

IndexIn(c, seq) ==
    IF \E i \in 1..Len(seq) : seq[i] = c
    THEN CHOOSE i \in 1..Len(seq) : seq[i] = c
    ELSE 0

LowerChar(c) == IF IndexIn(c, UpperCase) > 0 THEN LowerCase[IndexIn(c, UpperCase)] ELSE c

UpperChar(c) == IF IndexIn(c, LowerCase) > 0 THEN UpperCase[IndexIn(c, LowerCase)] ELSE c

\* s.lower()
lower(s) == [i \in 1..Len(s) |-> LowerChar(s[i])]

\* s.strip()
strip(s) ==
    LET keep == {i \in 1..Len(s) : s[i] \notin Whitespace}
    IN  IF keep = {} THEN <<>>
        ELSE SubSeq(s, CHOOSE i \in keep : \A j \in keep : i <= j,
                       CHOOSE i \in keep : \A j \in keep : i >= j)

\* s.endswith(suffix)
endswith(s, suffix) ==
    /\ Len(s) >= Len(suffix)
    /\ SubSeq(s, Len(s) - Len(suffix) + 1, Len(s)) = suffix

\* the decimal digits of a natural number
RECURSIVE NatDigits(_)
NatDigits(n) == IF n < 10 THEN <<Digits[n + 1]>>
                ELSE NatDigits(n \div 10) \o <<Digits[(n % 10) + 1]>>

\* the value of a non-empty sequence of digits
RECURSIVE DigitsValue(_)
DigitsValue(s) == IF Len(s) = 0 THEN 0
                  ELSE 10 * DigitsValue(SubSeq(s, 1, Len(s) - 1))
                       + (IndexIn(s[Len(s)], Digits) - 1)

IsDigits(s) == Len(s) > 0 /\ \A i \in 1..Len(s) : IndexIn(s[i], Digits) > 0

(***************************************************************************)
(* Values of a parsed JSON payload: None, a number (in hundredths) or a    *)
(* string.                                                                 *)
(***************************************************************************)
None == [t |-> "null", n |-> 0, s |-> <<>>]

Num(h) == [t |-> "num", n |-> h, s |-> <<>>]

Text(s) == [t |-> "str", n |-> 0, s |-> s]

\* str(v) of a number: whole numbers print as an int does, others with their
\* two decimals
PyStr(v) ==
    CASE v.t = "str" -> v.s
      [] v.t = "null" -> <<"N","o","n","e">>
      [] OTHER ->
            LET a    == IF v.n < 0 THEN -v.n ELSE v.n
                sign == IF v.n < 0 THEN <<"-">> ELSE <<>>
                frac == a % 100
            IN  sign \o NatDigits(a \div 100) \o
                (IF frac = 0 THEN <<>>
                 ELSE <<".", Digits[(frac \div 10) + 1]>> \o
                      (IF frac % 10 = 0 THEN <<>> ELSE <<Digits[(frac % 10) + 1]>>))

\* Python truthiness, as "x or 0" tests it
Truthy(v) ==
    CASE v.t = "null" -> FALSE
      [] v.t = "num"  -> v.n # 0
      [] OTHER        -> v.s # <<>>

\* variant: the value passed to float() as it is
OrZeroKeeps(v) == v

\* x or 0
OrZero(v) == IF Truthy(v) THEN v ELSE Num(0)

\* float(v): [exc, n].  Of strings, the optionally signed runs of digits with
\* surrounding whitespace are parsed; the model's inputs hold no decimal point,
\* exponent, underscore, "inf" or "nan" spelling, so every other string of
\* theirs raises ValueError as in Python.
float(v) ==
    CASE v.t = "num"  -> [exc |-> "none", n |-> v.n]
      [] v.t = "null" -> [exc |-> "TypeError", n |-> 0]
      [] OTHER ->
            LET s    == strip(v.s)
                neg  == Len(s) > 0 /\ s[1] = "-"
                body == IF Len(s) > 0 /\ s[1] \in {"-", "+"} THEN Tail(s) ELSE s
            IN  IF IsDigits(body)
                THEN [exc |-> "none",
                      n |-> (IF neg THEN -1 ELSE 1) * 100 * DigitsValue(body)]
                ELSE [exc |-> "ValueError", n |-> 0]

(***************************************************************************)
(* Input Mapper: build_input_df (app.py 54-62)                             *)
(***************************************************************************)
PayloadKeys == {"ptype", "condition", "weight", "age", "price", "location"}

\* a request body: kind "invalid" (not JSON), "null", "array" or "scalar" (JSON that
\* is no object) or "object", whose obj maps the keys it holds to their values
Body(kind, obj) == [kind |-> kind, obj |-> obj]

\* payload.get(key)
Get(obj, key) == IF key \in DOMAIN obj THEN obj[key] ELSE None

\* [exc, df]: only a dict has .get
build_input_df(payload) ==
    IF payload.kind # "object"
    THEN [exc |-> "AttributeError", df |-> <<>>]
    ELSE [exc |-> "none",
          df  |-> [Plastic_Type   |-> Get(payload.obj, "ptype"),
                   Condition      |-> Get(payload.obj, "condition"),
                   Weight_Kg      |-> Get(payload.obj, "weight"),
                   Age_Months     |-> Get(payload.obj, "age"),
                   Original_Price |-> Get(payload.obj, "price"),
                   Location       |-> Get(payload.obj, "location")]]

(***************************************************************************)
(* Prediction Pipeline: predict_all_targets (app.py 64-92)                 *)
(***************************************************************************)
condition_mapping ==
    [w \in {<<"c","r","a","c","k","e","d">>, <<"u","s","e","d">>,
            <<"g","o","o","d">>, <<"n","e","w">>} |->
        CASE w = <<"c","r","a","c","k","e","d">> -> 1
          [] w = <<"u","s","e","d">>             -> 2
          [] w = <<"g","o","o","d">>             -> 3
          [] w = <<"n","e","w">>                 -> 4]

\* condition_mapping.get(key, 0)
MappingGet(key) == IF key \in DOMAIN condition_mapping THEN condition_mapping[key] ELSE 0

\* variant: the lookup without strip()
map_cond_no_strip(v) ==
    IF v.t = "null" THEN 0 ELSE MappingGet(lower(PyStr(v)))

\* _map_cond(v)
map_cond(v) ==
    IF v.t = "null" THEN 0 ELSE MappingGet(strip(lower(PyStr(v))))

\* variant: the branch test without models_loaded
ModelBackedIgnoresFlag == preprocessor # "None" /\ DOMAIN models # {}

\* the test that selects the model-backed branch
ModelBacked == models_loaded /\ preprocessor # "None" /\ DOMAIN models # {}

Max(a, b) == IF a >= b THEN a ELSE b

\* round(x, 2) of x >= 0 given in thousandths: the nearest hundredths.  A decimal
\* tie is no tie of the binary doubles the code rounds, and which neighbour they
\* fall to depends on their representation error: both are possible outcomes.
Round2(x) ==
    LET q == x \div 10
        r == x % 10
    IN  IF r < 5 THEN {q} ELSE IF r > 5 THEN {q + 1} ELSE {q, q + 1}

\* variant: the resale formula without max(0, ...)
ResaleNoClamp(price, age) == 2 * price - age

\* the three formulas of the fallback, in thousandths, before round()
ResaleExact(price, age) == Max(0, 2 * price - age)

RecycleExact(weight) == Max(0, 10 * 12 * weight)

ReuseExact(age) == Max(0, 10 * (10000 - age))

NoCall == [branch |-> "none", exc |-> "none", cond |-> -1, out |-> <<>>]

\* the fallback branch: the set of [branch, exc, cond, out] it can end in
Fallback(df) ==
    LET price  == float(OrZero(df.Original_Price))
        weight == float(OrZero(df.Weight_Kg))
        age    == float(OrZero(df.Age_Months))
    IN  IF price.exc # "none"
        THEN {[branch |-> "fallback", exc |-> price.exc, cond |-> -1, out |-> <<>>]}
        ELSE IF weight.exc # "none"
        THEN {[branch |-> "fallback", exc |-> weight.exc, cond |-> -1, out |-> <<>>]}
        ELSE IF age.exc # "none"
        THEN {[branch |-> "fallback", exc |-> age.exc, cond |-> -1, out |-> <<>>]}
        ELSE {[branch |-> "fallback", exc |-> "none", cond |-> -1,
               out |-> [k \in {"Resale_Value", "Recycle_Value", "Reuse_Score"} |->
                          CASE k = "Resale_Value"  -> resale
                            [] k = "Recycle_Value" -> recycle
                            [] k = "Reuse_Score"   -> reuse]] :
                <<resale, recycle, reuse>> \in
                    Round2(ResaleExact(price.n, age.n))
                    \X Round2(RecycleExact(weight.n))
                    \X Round2(ReuseExact(age.n))}

\* what the loaded artifacts do with a record is theirs to decide: whether
\* transform() or predict() raises, and the value the models predict
ArtifactBehaviours == [raises : BOOLEAN, y : {0, 4250}]

\* the model-backed branch: the Condition column is mapped, then the artifacts run
ModelBranch(df, art) ==
    LET cond == map_cond(df.Condition)
    IN  IF art.raises
        THEN {[branch |-> "model", exc |-> "ValueError", cond |-> cond, out |-> <<>>]}
        ELSE {[branch |-> "model", exc |-> "none", cond |-> cond,
               out |-> [k \in DOMAIN models |-> art.y]]}

predict_all_targets(df, art) ==
    IF ModelBacked THEN ModelBranch(df, art) ELSE Fallback(df)

(***************************************************************************)
(* HTTP Surface (app.py 95-161)                                            *)
(***************************************************************************)
index_html == <<"i","n","d","e","x",".","h","t","m","l">>
ourai_html == <<"o","u","r","a","i",".","h","t","m","l">>
about_html == <<"a","b","o","u","t",".","h","t","m","l">>
contact_html == <<"c","o","n","t","a","c","t",".","h","t","m","l">>
notes_txt == <<"n","o","t","e","s",".","t","x","t">>

\* the files the template folder may hold
TemplateFiles == {index_html, ourai_html, about_html, contact_html, notes_txt}

\* os.path.isfile(os.path.join(template_folder, fname))
isfile(fname) == fname \in DOMAIN templates /\ templates[fname] # "absent"

Response(status, body) == [status |-> status, body |-> body]

NotFound == Response(404, [text |-> "Template not found on server"])

\* render_or_static(fname): the rendered template, the raw file when rendering
\* raises, or the 404 text
render_or_static(fname) ==
    IF isfile(fname)
    THEN IF templates[fname] = "ok"
         THEN Response(200, [page |-> fname, how |-> "rendered"])
         ELSE Response(200, [page |-> fname, how |-> "raw"])
    ELSE NotFound

\* variant: a handler that declares the flag global and clears it
HandlerFrameResets ==
    /\ preprocessor' = preprocessor
    /\ models' = models
    /\ models_loaded' = FALSE

\* no handler declares a global or assigns one: the bundle is only read
HandlerFrame == UNCHANGED <<preprocessor, models, models_loaded>>

\* a handler returns: what it did not assign is as it was
Return == HandlerFrame /\ UNCHANGED <<files, templates, pc, stdout, posted>>

Get_(route, path) == [method |-> "GET", route |-> route, path |-> path, body |-> Body("none", <<>>)]

index ==
    /\ pc = "serving"
    /\ request' = Get_("index", <<>>)
    /\ response' = render_or_static(index_html)
    /\ call' = NoCall
    /\ Return

ourai ==
    /\ pc = "serving"
    /\ request' = Get_("ourai", <<"o","u","r","a","i">>)
    /\ response' = render_or_static(ourai_html)
    /\ call' = NoCall
    /\ Return

about ==
    /\ pc = "serving"
    /\ request' = Get_("about", <<"a","b","o","u","t">>)
    /\ response' = render_or_static(about_html)
    /\ call' = NoCall
    /\ Return

contact ==
    /\ pc = "serving"
    /\ request' = Get_("contact", <<"c","o","n","t","a","c","t">>)
    /\ response' = render_or_static(contact_html)
    /\ call' = NoCall
    /\ Return

\* the rules of app.url_map, as routes() lists them
UrlMap == <<"/static/<path:filename>", "/", "/ourai", "/about", "/contact",
            "/routes", "/predict", "/<path:subpath>">>

routes ==
    /\ pc = "serving"
    /\ request' = Get_("routes", <<"r","o","u","t","e","s">>)
    /\ response' = Response(200, [links |-> UrlMap])
    /\ call' = NoCall
    /\ Return

\* the paths another GET rule serves: the catch-all never sees them
startswith(s, prefix) == Len(s) >= Len(prefix) /\ SubSeq(s, 1, Len(prefix)) = prefix

RoutedElsewhere(subpath) ==
    \/ subpath \in {<<>>, <<"o","u","r","a","i">>, <<"a","b","o","u","t">>, <<"c","o","n","t","a","c","t">>, <<"r","o","u","t","e","s">>}
    \/ startswith(subpath, <<"s","t","a","t","i","c","/">>)

\* variant: a catch-all answering 404 where it falls back to index.html
catch_all_404(subpath) ==
    IF isfile(subpath) /\ endswith(subpath, <<".","h","t","m","l">>)
    THEN render_or_static(subpath)
    ELSE NotFound

\* catch_all(subpath)
catch_all_response(subpath) ==
    IF isfile(subpath) /\ endswith(subpath, <<".","h","t","m","l">>)
    THEN render_or_static(subpath)
    ELSE render_or_static(index_html)

catch_all(P) ==
    /\ pc = "serving"
    /\ \E subpath \in P :
          /\ ~RoutedElsewhere(subpath)
          /\ request' = Get_("catch_all", subpath)
          /\ response' = catch_all_response(subpath)
          /\ call' = NoCall
    /\ Return

\* preds.get(k)
PredsGet(out, k) == IF k \in DOMAIN out THEN Num(out[k]) ELSE None

InvalidJson == Response(400, [error |-> "Invalid JSON"])

PredictionFailed(exc) == Response(500, [error |-> "Prediction failed", details |-> exc])

Predicted(out) ==
    Response(200, [resale_value  |-> PredsGet(out, "Resale_Value"),
                   recycle_score |-> PredsGet(out, "Recycle_Value"),
                   reuse_score   |-> PredsGet(out, "Reuse_Score"),
                   models_loaded |-> models_loaded])

\* variant: get_json(silent=True), None for a body that is not JSON
get_json_silent(body) ==
    IF body.kind = "invalid"
    THEN [exc |-> "none", payload |-> Body("null", <<>>)]
    ELSE [exc |-> "none", payload |-> body]

\* request.get_json(force=True): [exc, payload]
get_json(body) ==
    IF body.kind = "invalid"
    THEN [exc |-> "BadRequest", payload |-> body]
    ELSE [exc |-> "none", payload |-> body]

\* the handler's two try blocks: the set of [response, call] it can end in
PredictOutcomes(body, art) ==
    LET parsed == get_json(body)
        built  == build_input_df(parsed.payload)
    IN  IF parsed.exc # "none"
        THEN {[response |-> InvalidJson, call |-> NoCall]}
        ELSE IF built.exc # "none"
        THEN {[response |-> PredictionFailed(built.exc), call |-> NoCall]}
        ELSE {[response |-> IF c.exc # "none" THEN PredictionFailed(c.exc)
                            ELSE Predicted(c.out),
               call     |-> c] : c \in predict_all_targets(built.df, art)}

predict(B) ==
    /\ pc = "serving"
    /\ \E body \in B, art \in ArtifactBehaviours :
          \E o \in PredictOutcomes(body, art) :
              /\ request' = [method |-> "POST", route |-> "predict",
                              path |-> <<"p","r","e","d","i","c","t">>, body |-> body]
              /\ response' = o.response
              /\ call' = o.call
    /\ Return

(***************************************************************************)
(* Inputs                                                                  *)
(***************************************************************************)
\* an object payload holding, of its six keys, those whose option is not "absent"
Absent == [t |-> "absent", n |-> 0, s |-> <<>>]

Object(ptype, condition, weight, age, price, location) ==
    LET all == [k \in PayloadKeys |->
                  CASE k = "ptype"     -> ptype
                    [] k = "condition" -> condition
                    [] k = "weight"    -> weight
                    [] k = "age"       -> age
                    [] k = "price"     -> price
                    [] k = "location"  -> location]
        held == {k \in PayloadKeys : all[k] # Absent}
    IN  Body("object", [k \in held |-> all[k]])

\* runs of spaces and tabs of length at most MaxPad
RECURSIVE PadsOfLen(_)
PadsOfLen(n) == IF n = 0 THEN {<<>>}
                ELSE {<<c>> \o p : c \in {" ", "\t"}, p \in PadsOfLen(n - 1)}

Pads == UNION {PadsOfLen(n) : n \in 0..MaxPad}

Vocabulary == DOMAIN condition_mapping

\* a vocabulary word in lower case, in upper case, capitalised, and with only its
\* last letter in upper case
Casings(w) ==
    {w,
     [i \in 1..Len(w) |-> UpperChar(w[i])],
     [i \in 1..Len(w) |-> IF i = 1 THEN UpperChar(w[i]) ELSE w[i]],
     [i \in 1..Len(w) |-> IF i = Len(w) THEN UpperChar(w[i]) ELSE w[i]]}

VocabularyInputs ==
    {Text(l \o c \o r) : l \in Pads, r \in Pads, c \in UNION {Casings(w) : w \in Vocabulary}}

\* strings outside the vocabulary, and numbers
OtherConditionInputs ==
    {Text(<<>>), Text(<<" ">>), Text(<<"b","r","o","k","e","n">>), Text(<<"n","e","w","s">>), Text(<<"n","e"," ","w">>), Text(<<"g","o","o">>),
     Text(<<"4">>), Num(400), Num(300), Num(0)}

ConditionInputs == {Absent, None} \cup VocabularyInputs \cup OtherConditionInputs

PET == Text(<<"P","E","T">>)

Pune == Text(<<"P","u","n","e">>)

\* prices, weights and ages in hundredths; strings that are and are not numbers
PriceInputs ==
    {Absent, None, Num(-5000), Num(0), Num(3), Num(10000),
     Text(<<"a","b","c">>), Text(<<>>), Text(<<" ","1","2"," ">>)}

WeightInputs == {Absent, Num(-300), Num(0), Num(500), Text(<<"a","b","c">>)}

AgeInputs == {Absent, Num(0), Num(1), Num(1000), Num(20000), Text(<<"-","7">>), Text(<<"t","e","n">>)}

\* bodies of POST /predict for the pipeline: every subset of the six keys missing,
\* with numeric and non-numeric values, and every condition input
FieldBodies ==
    {Object(pt, c, w, a, p, l) :
        pt \in {Absent, PET}, c \in {Absent, Text(<<"u","s","e","d">>)},
        w \in WeightInputs, a \in AgeInputs, p \in PriceInputs, l \in {Absent, Pune}}

ConditionBodies ==
    {Object(PET, c, Num(500), Num(1000), Num(10000), Pune) : c \in ConditionInputs}

PipelineBodies == FieldBodies \cup ConditionBodies

\* bodies of POST /predict for the whole server
Bodies ==
    {Body("invalid", <<>>), Body("null", <<>>), Body("array", <<>>),
     Body("scalar", <<>>),
     Object(Absent, Absent, Absent, Absent, Absent, Absent),
     Object(PET, Text(<<" ","N","e","w">>), Num(500), Num(1000), Num(10000), Pune),
     Object(PET, Text(<<"g","o","o">>), Num(-300), Num(20000), Num(-5000), Pune),
     Object(PET, None, Num(500), Num(1), Num(3), Absent),
     Object(PET, Text(<<"u","s","e","d">>), Num(500), Num(1000), Text(<<"a","b","c">>), Pune)}

\* paths of GET requests no page route is registered for
Paths ==
    {index_html, about_html, notes_txt, <<"n","o","p","e",".","h","t","m","l">>, <<"n","o","p","e">>, <<"a","b","o","u","t">>, <<"h","t","m","l">>, <<"a","b","o","u","t",".","h","t","m","l",".","b","a","k">>}

(***************************************************************************)
(* Specifications                                                          *)
(***************************************************************************)
AllOk == [p \in ArtifactPaths |-> "ok"]

FileStates == [ArtifactPaths -> {"missing", "corrupt", "ok"}]

\* the artifact directories the wider input sets are run against
FileScenarios ==
    {AllOk,
     [AllOk EXCEPT ![PREPROCESSOR_PKL] = "missing"],
     [AllOk EXCEPT ![MODEL_FILES["Recycle_Value"]] = "corrupt"]}

TemplatesOk == [f \in TemplateFiles |-> "ok"]

TemplateStates ==
    {t \in [TemplateFiles -> {"absent", "ok", "bad"}] : t[notes_txt] # "bad"}

\* the module's globals as lines 29-31 leave them, before try_load_models() runs
Globals ==
    /\ pc = "import"
    /\ preprocessor = "None"
    /\ models = [k \in {} |-> "model"]
    /\ models_loaded = FALSE
    /\ stdout = <<>>
    /\ request = [method |-> "none", route |-> "none", path |-> <<>>, body |-> Body("none", <<>>)]
    /\ response = Response(0, [text |-> "none"])
    /\ call = NoCall

Init ==
    /\ Globals
    /\ posted = Body("none", <<>>)
    /\ \/ files \in FileStates /\ templates = TemplatesOk
       \/ files \in FileScenarios /\ templates \in TemplateStates

Next ==
    \/ try_load_models
    \/ predict(Bodies)
    \/ index
    \/ ourai
    \/ about
    \/ contact
    \/ routes
    \/ catch_all(Paths)

Spec == Init /\ [][Next]_vars

\* one body is posted, drawn from the wider set
InitPipeline ==
    /\ Globals
    /\ posted \in PipelineBodies
    /\ files \in FileScenarios
    /\ templates = TemplatesOk

NextPipeline ==
    \/ try_load_models
    \/ predict({posted})

SpecPipeline == InitPipeline /\ [][NextPipeline]_vars

(***************************************************************************)
(* Properties                                                              *)
(***************************************************************************)
Loaded == pc = "serving"

EveryArtifactOk == \A p \in ArtifactPaths : files[p] = "ok"

AllKeys == {MODEL_KEYS[i] : i \in 1..Len(MODEL_KEYS)}

ServedPredict == pc = "serving" /\ request.route = "predict"

ObjectPosted == ServedPredict /\ request.body.kind = "object"

\* the value the served payload holds under a key, Absent when it holds none
ReqField(k) ==
    IF k \in DOMAIN request.body.obj THEN request.body.obj[k] ELSE Absent

\* a field's number, zero when the field is no number
NumberOrZero(k) == IF ReqField(k).t = "num" THEN ReqField(k).n ELSE 0

Clamp0(x) == IF x > 0 THEN x ELSE 0

Dist(a, b) == IF a >= b THEN a - b ELSE b - a

\* the 200 response carries the fallback's three formulas, each within half a
\* hundredth of its exact value, computed from the numbers of price, weight, age
FallbackValues ==
    LET price  == NumberOrZero("price")
        weight == NumberOrZero("weight")
        age    == NumberOrZero("age")
        b      == response.body
    IN  /\ response.status = 200
        /\ b.resale_value.t = "num" /\ b.recycle_score.t = "num" /\ b.reuse_score.t = "num"
        /\ b.resale_value.n >= 0
        /\ Dist(10 * b.resale_value.n, Clamp0(2 * price - age)) <= 5
        /\ b.recycle_score.n = Clamp0(12 * weight)
        /\ b.reuse_score.n = Clamp0(10000 - age)

\* C1: once try_load_models() has returned, models_loaded is True if and only if
\* all four artifacts were read without an exception, which is also exactly when
\* the preprocessor and all three named models are held.
C1_LoadedIffAllFour ==
    Loaded =>
        /\ models_loaded <=> EveryArtifactOk
        /\ models_loaded <=> (preprocessor = "artifact" /\ DOMAIN models = AllKeys)

C1_Witness ==
    /\ Loaded /\ ~models_loaded
    /\ files[PREPROCESSOR_PKL] = "ok"
    /\ files[MODEL_FILES["Reuse_Score"]] = "corrupt"
    /\ DOMAIN models = {"Resale_Value", "Recycle_Value"}

\* C2 as stated: a failed load never raises and leaves models_loaded False, the
\* preprocessor None and the model mapping empty.
C2_FailureLeavesNothing ==
    /\ pc # "crashed"
    /\ (Loaded /\ ~EveryArtifactOk) =>
          /\ models_loaded = FALSE
          /\ preprocessor = "None"
          /\ DOMAIN models = {}

\* C2 amended: a failed load never raises and leaves models_loaded False; the
\* preprocessor is None exactly when the preprocessing artifact itself failed,
\* and the mapping holds exactly the models that precede the first failure.
C2_FailureKeepsPrefix ==
    /\ pc # "crashed"
    /\ (Loaded /\ ~EveryArtifactOk) =>
          /\ models_loaded = FALSE
          /\ preprocessor = "None" <=> files[PREPROCESSOR_PKL] # "ok"
          /\ \A i \in 1..Len(MODEL_KEYS) :
                MODEL_KEYS[i] \in DOMAIN models <=>
                    /\ files[PREPROCESSOR_PKL] = "ok"
                    /\ \A j \in 1..i : files[MODEL_FILES[MODEL_KEYS[j]]] = "ok"

C2_Witness ==
    /\ Loaded /\ ~models_loaded
    /\ files[MODEL_FILES["Recycle_Value"]] = "corrupt"
    /\ preprocessor = "artifact"
    /\ DOMAIN models = {"Resale_Value"}
    /\ stdout[1] = "Models NOT loaded:"

\* C3: POST /predict always ends in one response: 400 {"error": "Invalid JSON"}
\* exactly when the body is not JSON, 500 "Prediction failed" with details exactly
\* when the body parsed and the mapper or the pipeline raised, and otherwise 200
\* with resale_value, recycle_score, reuse_score and models_loaded.
C3_PredictResponses ==
    ServedPredict =>
        LET raised == request.body.kind # "object" \/ call.exc # "none"
        IN  /\ response.status \in {200, 400, 500}
            /\ response.status = 400 <=> request.body.kind = "invalid"
            /\ response.status = 400 => response.body = [error |-> "Invalid JSON"]
            /\ response.status = 500 <=> (request.body.kind # "invalid" /\ raised)
            /\ response.status = 500 =>
                  /\ DOMAIN response.body = {"error", "details"}
                  /\ response.body.error = "Prediction failed"
            /\ response.status = 200 =>
                  DOMAIN response.body =
                      {"resale_value", "recycle_score", "reuse_score", "models_loaded"}

C3_Witness ==
    /\ ServedPredict
    /\ request.body.kind = "invalid"
    /\ response.status = 400

C5_FallbackNeverFails ==
    (ObjectPosted /\ ~models_loaded) =>
        /\ call.exc = "none"
        /\ response.status = 200

\* C6: with the bundle unloaded, an object payload missing any subset of its six
\* keys (the numeric fields it holds being numbers) raises nothing and gets the
\* three scores, each missing numeric field counting as zero.
C6_MissingKeysAreZero ==
    (/\ ObjectPosted
     /\ ~models_loaded
     /\ \A k \in {"price", "weight", "age"} : ReqField(k).t \in {"absent", "null", "num"})
    => /\ call.branch = "fallback"
       /\ call.exc = "none"
       /\ FallbackValues

C6_Witness ==
    /\ ObjectPosted
    /\ ~models_loaded
    /\ DOMAIN request.body.obj = {"weight"}
    /\ request.body.obj["weight"] = Num(500)
    /\ response.status = 200
    /\ response.body.resale_value = Num(0)
    /\ response.body.recycle_score = Num(6000)
    /\ response.body.reuse_score = Num(10000)

\* C7: with the bundle unloaded and price, age, weight numbers of any sign, the
\* scores are max(0, price*0.2 - age*0.1), max(0, weight*12) and max(0, 100 - age)
\* to two decimals whatever the other fields hold; 100, 10, 5 give 19, 60, 90 and
\* -50, 200, -3 give 0, 0, 0.
C7_FallbackFormula ==
    (/\ ObjectPosted
     /\ ~models_loaded
     /\ \A k \in {"price", "weight", "age"} : ReqField(k).t = "num")
    => /\ FallbackValues
       /\ (ReqField("price") = Num(10000) /\ ReqField("age") = Num(1000)
           /\ ReqField("weight") = Num(500))
          => /\ response.body.resale_value = Num(1900)
             /\ response.body.recycle_score = Num(6000)
             /\ response.body.reuse_score = Num(9000)
       /\ (ReqField("price") = Num(-5000) /\ ReqField("age") = Num(20000)
           /\ ReqField("weight") = Num(-300))
          => /\ response.body.resale_value = Num(0)
             /\ response.body.recycle_score = Num(0)
             /\ response.body.reuse_score = Num(0)

C7_Witness ==
    /\ ObjectPosted
    /\ ~models_loaded
    /\ ReqField("price") = Num(-5000)
    /\ ReqField("age") = Num(20000)
    /\ ReqField("weight") = Num(-300)
    /\ ReqField("ptype") = Absent
    /\ response.status = 200
    /\ response.body.reuse_score = Num(0)

\* C8: once startup loading has finished, no request to /predict, a page route,
\* /routes or the catch-all changes models_loaded, the preprocessor or the model
\* mapping, and no second load is made.
C8_BundleFrozen ==
    [][pc = "serving" =>
          /\ pc' = "serving"
          /\ preprocessor' = preprocessor
          /\ models' = models
          /\ models_loaded' = models_loaded]_vars

C8_Witness ==
    /\ pc = "serving"
    /\ request.route = "catch_all"
    /\ models_loaded
    /\ DOMAIN models = AllKeys

\* the ordinal the documentation gives a vocabulary word
Ordinal(w) ==
    CASE w = <<"c","r","a","c","k","e","d">> -> 1
      [] w = <<"u","s","e","d">>    -> 2
      [] w = <<"g","o","o","d">>    -> 3
      [] w = <<"n","e","w">>     -> 4

\* C9: in the model-backed branch a vocabulary word in any letter case and with
\* any surrounding whitespace is mapped to its ordinal (cracked 1, used 2, good 3,
\* new 4); every other string, a number and a missing value are mapped to 0.
C9_ConditionOrdinals ==
    (ObjectPosted /\ call.branch = "model") =>
        LET v == ReqField("condition")
        IN  /\ \A w \in {<<"c","r","a","c","k","e","d">>, <<"u","s","e","d">>, <<"g","o","o","d">>, <<"n","e","w">>} :
                \A c \in Casings(w), l \in Pads, r \in Pads :
                    v = Text(l \o c \o r) => call.cond = Ordinal(w)
            /\ v \in OtherConditionInputs \cup {Absent, None} => call.cond = 0

C9_Witness ==
    /\ ObjectPosted
    /\ call.branch = "model"
    /\ ReqField("condition") = Text(<<"\t">> \o <<"N","E","W">> \o <<" ">>)
    /\ call.cond = 4

\* the response of GET / for the template folder as it is
HomeResponse ==
    CASE templates[index_html] = "absent" ->
            Response(404, [text |-> "Template not found on server"])
      [] templates[index_html] = "ok" ->
            Response(200, [page |-> index_html, how |-> "rendered"])
      [] OTHER ->
            Response(200, [page |-> index_html, how |-> "raw"])

====
